---- MODULE Spec2Model ----
(***************************************************************************)
(* Model of the gap-analyzer server: the /search pipeline (topic           *)
(* suggestion, per-topic fetch -> extract -> analyse -> insert, response   *)
(* assembly), the /history endpoint, the asynchronous database             *)
(* initialisation and the results table.                                   *)
(*                                                                         *)
(* Two revisions of the server are modelled, selected by variant:        *)
(*   "simple"   - src/index.js          (one gapProbability score)         *)
(*   "extended" - src/unnamed/part_001  (four sub-scores + overallScore)   *)
(*                                                                         *)
(* JavaScript strings that the code takes apart (the suggester's raw       *)
(* output, the topics, the URLs) are sequences of one-character strings.   *)
(* Every action is one run-to-completion slice of a handler: the code      *)
(* between two awaits.                                                     *)
(***************************************************************************)
EXTENDS Integers, Sequences, FiniteSets, TLC

VARIABLES
    variant,    \* which revision is running: "simple" | "extended"
    db,         \* module-level let db: "undefined" | "open"
    dbInit,     \* the initialisation IIFE: "pending" | "done"
    tableOk,    \* TRUE when the results table exists in database.db
    rows,       \* the results table, in insertion (rowid) order
    clock,      \* CURRENT_TIMESTAMP when the engine last read it, in whole seconds
    kind,       \* per request: "search" | "history"
    pc,         \* per request: the await the handler is suspended at
    raw,        \* per request: geminiResponse.response.text()
    topics,     \* per request: const topics
    idx,        \* per request: position of the for..of loop in topics (1-based)
    results,    \* per request: let results = []
    pending,    \* per request: the bound parameters of the db.run in flight
    suggester,  \* per request: outcome of the topic suggester call (observer)
    obs,        \* per request: what each topic's stages were given / did (observer)
    response    \* per request: what res.status().json() sent

vars == <<variant, db, dbInit, tableOk, rows, clock, kind, pc, raw, topics,
          idx, results, pending, suggester, obs, response>>

-----------------------------------------------------------------------------
(* Bounds of the model *)

\* Lines in the suggester's raw output
MaxLines == 2
\* Latest second an insert can happen in
MaxClock == 1

\* The requests of a run and what each of them asks for
Requests == {"r1", "r2"}
Workloads == { [r \in Requests |-> IF r = "r1" THEN "search" ELSE "history"] }

-----------------------------------------------------------------------------
(* JavaScript string primitives used by the handlers *)

\* String.prototype.trim's white space (the part of it the inputs use)
IsSpace(c) == c \in {" ", "\t", "\r", "\n"}

RECURSIVE TrimStart(_)
TrimStart(s) ==
    IF s # <<>> /\ IsSpace(Head(s)) THEN TrimStart(Tail(s)) ELSE s

RECURSIVE TrimEnd(_)
TrimEnd(s) ==
    IF s # <<>> /\ IsSpace(s[Len(s)]) THEN TrimEnd(SubSeq(s, 1, Len(s) - 1)) ELSE s

\* String.prototype.trim
Trim(s) == TrimEnd(TrimStart(s))

\* redditTopics.split('\n'): the segments between line feeds; "" gives [""]
RECURSIVE SplitFrom(_, _)
SplitFrom(s, cur) ==
    IF s = <<>> THEN <<cur>>
    ELSE IF Head(s) = "\n" THEN <<cur>> \o SplitFrom(Tail(s), <<>>)
    ELSE SplitFrom(Tail(s), Append(cur, Head(s)))

SplitLines(s) == SplitFrom(s, <<>>)

\* A filter that lets every line through
FilterKeepsBlank(ls) == ls

\* .filter(topic => topic.trim() !== '')
RECURSIVE FilterNonBlank(_)
FilterNonBlank(ls) ==
    IF ls = <<>> THEN <<>>
    ELSE IF Trim(Head(ls)) # <<>> THEN <<Head(ls)>> \o FilterNonBlank(Tail(ls))
    ELSE FilterNonBlank(Tail(ls))

\* const topics = redditTopics.split('\n').filter(topic => topic.trim() !== '')
ParseTopics(text) == FilterNonBlank(SplitLines(text))

\* A replace that goes on while the topic still starts with the marker
RECURSIVE SanitizeTopicStripsAll(_)
SanitizeTopicStripsAll(topic) ==
    LET t == Trim(topic)
    IN  IF Len(t) >= 2 /\ t[1] \in {"r", "R"} /\ t[2] = "/"
        THEN SanitizeTopicStripsAll(SubSeq(t, 3, Len(t)))
        ELSE t

\* topic.trim().replace(/^r\//i, ''): one leading "r/" or "R/" is removed
SanitizeTopic(topic) ==
    LET t == Trim(topic)
    IN  IF Len(t) >= 2 /\ t[1] \in {"r", "R"} /\ t[2] = "/"
        THEN SubSeq(t, 3, Len(t))
        ELSE t

\* the template literal https://www.reddit.com/r/${sanitizedTopic}
RedditUrl(topic) == <<"https://www.reddit.com/r/">> \o SanitizeTopic(topic)

-----------------------------------------------------------------------------
(* The analysis model's output and what the handler makes of it *)

\* A JSON field the object does not have reads as undefined
Missing == -1
UndefinedIdea == "<undefined>"
\* Number.prototype.toFixed of NaN gives "NaN"
NaN == -2

\* A parsed JSON value: an object with the fields the prompts ask for, or null
JsonObject(idea, gap, p, a, m, f) ==
    [type |-> "object", businessIdea |-> idea, gapProbability |-> gap,
     painPoint |-> p, audienceScale |-> a, monetizationPotential |-> m,
     feasibility |-> f]

JsonNull == [JsonObject(UndefinedIdea, Missing, Missing, Missing, Missing, Missing)
                EXCEPT !.type = "null"]

\* The model's text is a sequence of tokens: code-fence markers, white space,
\* a well-formed JSON value, or anything JSON.parse rejects
FenceJson == [tok |-> "fence-json", val |-> JsonNull]
Fence == [tok |-> "fence",     val |-> JsonNull]
Space == [tok |-> "ws",      val |-> JsonNull]
Garbage == [tok |-> "garbage", val |-> JsonNull]
Json(v) == [tok |-> "json",    val |-> v]

\* .replace(/(fence)json/g, '').replace(/(fence)/g, ''), where (fence) is the
\* three-backquote code-fence marker
RECURSIVE StripFences(_)
StripFences(text) ==
    IF text = <<>> THEN <<>>
    ELSE IF Head(text).tok \in {"fence-json", "fence"} THEN StripFences(Tail(text))
    ELSE <<Head(text)>> \o StripFences(Tail(text))

RECURSIVE TrimTokensStart(_)
TrimTokensStart(text) ==
    IF text # <<>> /\ Head(text).tok = "ws" THEN TrimTokensStart(Tail(text)) ELSE text

RECURSIVE TrimTokensEnd(_)
TrimTokensEnd(text) ==
    IF text # <<>> /\ text[Len(text)].tok = "ws"
    THEN TrimTokensEnd(SubSeq(text, 1, Len(text) - 1))
    ELSE text

\* const cleanedJsonText = analysisResultText.replace(...).replace(...).trim()
CleanJsonText(text) == TrimTokensEnd(TrimTokensStart(StripFences(text)))

\* JSON.parse(cleanedJsonText) returns a value exactly when the text is one
\* JSON value; otherwise it throws SyntaxError
JsonParses(cleaned) == Len(cleaned) = 1 /\ cleaned[1].tok = "json"
JsonParse(cleaned) == cleaned[1].val

\* JavaScript truthiness of the fields the guards test
TruthyIdea(idea) == idea # "" /\ idea # UndefinedIdea
TruthyNumber(n) == n # 0 /\ n # Missing /\ n # NaN

\* A toFixed that cuts the digits off instead of rounding
ToFixed1Truncates(num, den) == (10 * num) \div den

\* x.toFixed(1) for x = num / den, in tenths: the integer n for which n / 10 - x
\* is as close to zero as possible, the larger n when there are two
ToFixed1(num, den) ==
    LET Dist(n) == IF n * den >= 10 * num THEN n * den - 10 * num
                                          ELSE 10 * num - n * den
        lo == (10 * num) \div den
        Cand == {lo, lo + 1}
    IN  CHOOSE n \in Cand : \A k \in Cand : Dist(n) < Dist(k) \/ (Dist(n) = Dist(k) /\ n >= k)

\* const overallScore = ((painPoint + audienceScale + monetizationPotential
\*                        + feasibility) / 4).toFixed(1), in tenths;
\* an undefined operand makes the sum NaN
OverallScore(p, a, m, f) ==
    IF Missing \in {p, a, m, f} THEN NaN
    ELSE ToFixed1(p + a + m + f, 4)

-----------------------------------------------------------------------------
(* Inputs the environment can hand to the server *)

\* Lines the topic suggester may write
Lines == { <<>>, <<" ">>, <<"a">>, <<"r", "/", "b">> }

RECURSIVE LineSeqs(_)
LineSeqs(n) ==
    IF n = 0 THEN { <<>> }
    ELSE LET shorter == LineSeqs(n - 1)
         IN  shorter \cup { Append(ls, l) : ls \in { x \in shorter : Len(x) = n - 1 }, l \in Lines }

RECURSIVE JoinLines(_)
JoinLines(ls) ==
    IF Len(ls) = 1 THEN ls[1]
    ELSE ls[1] \o <<"\n">> \o JoinLines(Tail(ls))

\* Every raw suggester output of at most MaxLines lines, with or without a
\* line feed after the last line
RawTexts ==
    { JoinLines(ls) \o end : ls \in { x \in LineSeqs(MaxLines) : x # <<>> },
                             end \in { <<>>, <<"\n">> } }

\* What axios.get can resolve to (response.data) and reject with (error.message)
Htmls == {"<html><body>posts</body></html>", "not-markup"}
FetchErrors == {"Request failed with status code 404"}

\* cheerio.load(html) / $('body').text() throws on input that is no markup
CheerioThrows(html) == html = "not-markup"

\* The range the analysis prompt asks every sub-score to be in
MaxScore == 100

\* JSON values the analysis model may return
FullJson == JsonObject("Budget coach app", 70, 80, 60, 40, 90)
EmptyIdeaJson == JsonObject("", 70, 1, 0, 0, 0)
NoScoreJson == JsonObject("Meal planner", 0, Missing, Missing, Missing, Missing)

\* Texts the analysis model may return
AnalysisTexts ==
    { <<Json(FullJson)>>,
      <<FenceJson, Space, Json(FullJson), Space, Fence>>,
      <<Garbage>>,
      <<Json(EmptyIdeaJson)>>,
      <<Json(NoScoreJson)>>,
      <<Json(JsonNull)>> }

-----------------------------------------------------------------------------
(* Response entries and table rows *)

\* An entry of the /search response.  scores is <<probability>> in the
\* simple variant and for every placeholder (probability: 0 / overall: 0),
\* <<pain, audience, monetization, feasibility, overall>> for an extended
\* analysis.
Entry(link, idea, scores) == [link |-> link, idea |-> idea, scores |-> scores]

FetchPlaceholder(url, msg) ==
    Entry(url, "Error fetching the subreddit page: " \o msg, <<0>>)
ParsePlaceholder(url) == Entry(url, "Error parsing the subreddit page.", <<0>>)
AnalysisPlaceholder(url) == Entry(url, "Could not generate or parse analysis.", <<0>>)

\* The scores the handler works out of the parsed analysis
Scores(v, json) ==
    IF v = "simple" THEN <<json.gapProbability>>
    ELSE <<json.painPoint, json.audienceScale, json.monetizationPotential,
           json.feasibility,
           OverallScore(json.painPoint, json.audienceScale,
                        json.monetizationPotential, json.feasibility)>>

\* results.push({ link: redditUrl, idea: ..., ... }) on the success path
AnalysisEntry(v, url, json) == Entry(url, json.businessIdea, Scores(v, json))

\* The insert without its guard: every parsed record goes to the store
PersistGuardAlways(v, json) == TRUE

\* if (analysisResultJson.businessIdea && analysisResultJson.gapProbability)
\* if (businessIdea)
PersistGuard(v, json) ==
    IF v = "simple"
    THEN TruthyIdea(json.businessIdea) /\ TruthyNumber(json.gapProbability)
    ELSE TruthyIdea(json.businessIdea)

\* The parameter array of db.run('INSERT INTO results ...', [...])
InsertParams(v, url, json) ==
    [subreddit |-> url, idea |-> json.businessIdea, scores |-> Scores(v, json)]

NoPending == [json |-> JsonNull, params |-> InsertParams("simple", <<>>, JsonNull)]

\* The columns are NOT NULL: an undefined parameter is bound as NULL and the
\* statement is rejected (the text "NaN" of overall_score is not NULL)
ViolatesNotNull(params) ==
    \E i \in 1..Len(params.scores) : i <= 4 /\ params.scores[i] = Missing

\* An id that starts over at every insert
NextIdReused(table) == 1

\* id INTEGER PRIMARY KEY AUTOINCREMENT
NextId(table) == IF table = <<>> THEN 1 ELSE table[Len(table)].id + 1

\* An insert that is not atomic: the second row written takes its subreddit
\* from the statement that ran before it
NewRowMixed(table, params, now, origin) ==
    [id |-> NextId(table),
     subreddit |-> IF table = <<>> THEN params.subreddit
                   ELSE table[Len(table)].subreddit,
     idea |-> params.idea, scores |-> params.scores, createdAt |-> now,
     origin |-> origin]

\* The row INSERT INTO results adds: id and createdAt are store-assigned.
\* origin is the observer's note of the request and topic the insert came
\* from; it is no column of the table.
NewRow(table, params, now, origin) ==
    [id |-> NextId(table), subreddit |-> params.subreddit, idea |-> params.idea,
     scores |-> params.scores, createdAt |-> now, origin |-> origin]

\* SELECT ... FROM results ORDER BY createdAt DESC: any arrangement of the
\* rows with createdAt non-increasing; SQL leaves the order of rows with equal
\* createdAt to the engine
HistoryOrders(table) ==
    LET n == Len(table)
        Arrangements == { p \in [1..n -> 1..n] : \A i, j \in 1..n : i # j => p[i] # p[j] }
    IN  { [i \in 1..n |-> table[p[i]]] :
            p \in { q \in Arrangements :
                      \A i \in 1..n : i < n => table[q[i]].createdAt >= table[q[i + 1]].createdAt } }

\* The simple variant selects subreddit, idea, probability, createdAt (no id,
\* written 0 here); the extended variant selects *
SelectColumns(v, row) ==
    IF v = "simple" THEN [row EXCEPT !.id = 0, !.origin = <<>>]
                    ELSE [row EXCEPT !.origin = <<>>]

-----------------------------------------------------------------------------
(* Responses *)

NoResponse == [status |-> 0,   error |-> "", list |-> <<>>]
OkResponse(l) == [status |-> 200, error |-> "", list |-> l]
ErrResponse(e) == [status |-> 500, error |-> e,  list |-> <<>>]

\* What the observer records of one topic: which stage got which input
NewObs == [fetch |-> "pending", error |-> "", html |-> "", analyse |-> "none",
           text |-> <<>>, guard |-> FALSE, insert |-> "none"]

-----------------------------------------------------------------------------
(* Initial state: the module has been loaded, the initialisation of the     *)
(* database has been started and no request has arrived.                    *)

Init ==
    /\ variant \in {"simple", "extended"}
    /\ db = "undefined"
    /\ dbInit = "pending"
    /\ tableOk = FALSE
    /\ rows = <<>>
    /\ clock = 0
    /\ kind \in Workloads
    /\ pc = [r \in Requests |-> "idle"]
    /\ raw = [r \in Requests |-> <<>>]
    /\ topics = [r \in Requests |-> <<>>]
    /\ idx = [r \in Requests |-> 0]
    /\ results = [r \in Requests |-> <<>>]
    /\ pending = [r \in Requests |-> NoPending]
    /\ suggester = [r \in Requests |-> "none"]
    /\ obs = [r \in Requests |-> <<>>]
    /\ response = [r \in Requests |-> NoResponse]

-----------------------------------------------------------------------------
(* Database initialisation (the async IIFE at module load) *)

\* db = await open(...); await db.exec(CREATE TABLE IF NOT EXISTS ...).
\* open may reject (db stays undefined); exec may reject (db is set, no table).
\* Statements issued on the handle wait for the exec, so the two awaits are
\* one step for every observer.
DbInitialize(outcome) ==
    /\ dbInit = "pending"
    /\ dbInit' = "done"
    /\ db' = IF outcome = "openFailed" THEN "undefined" ELSE "open"
    /\ tableOk' = (outcome = "ok")
    /\ UNCHANGED <<variant, rows, clock, kind, pc, raw, topics, idx, results,
                   pending, suggester, obs, response>>

-----------------------------------------------------------------------------
(* GET /search *)

Url(r) == RedditUrl(topics[r][idx[r]])

SetObs(r, f, val) == [obs EXCEPT ![r][idx[r]][f] = val]

\* results.push(entry) followed by the next iteration of the for..of loop:
\* the next topic's axios.get is issued, or the loop ends and res.json(results)
\* is sent.  obs1 is the observer's record including the finished topic.
PushAndContinue(r, entry, obs1) ==
    LET pushed == Append(results[r], entry)
    IN  /\ results' = [results EXCEPT ![r] = pushed]
        /\ pending' = [pending EXCEPT ![r] = NoPending]
        /\ IF idx[r] < Len(topics[r])
           THEN /\ idx' = [idx EXCEPT ![r] = idx[r] + 1]
                /\ pc' = [pc EXCEPT ![r] = "fetch"]
                /\ obs' = [obs1 EXCEPT ![r] = Append(obs1[r], NewObs)]
                /\ UNCHANGED response
           ELSE /\ pc' = [pc EXCEPT ![r] = "done"]
                /\ response' = [response EXCEPT ![r] = OkResponse(pushed)]
                /\ obs' = obs1
                /\ UNCHANGED idx

\* The handler runs up to await model.generateContent(prompt)
SearchStart(r) ==
    /\ kind[r] = "search"
    /\ pc[r] = "idle"
    /\ pc' = [pc EXCEPT ![r] = "suggest"]
    /\ suggester' = [suggester EXCEPT ![r] = "called"]
    /\ UNCHANGED <<variant, db, dbInit, tableOk, rows, clock, kind, raw, topics,
                   idx, results, pending, obs, response>>

\* The catch without its return: the handler answers as if no topic came back
SuggestFailNoReturn(r) ==
    /\ pc[r] = "suggest"
    /\ pc' = [pc EXCEPT ![r] = "done"]
    /\ response' = [response EXCEPT ![r] = OkResponse(<<>>)]
    /\ suggester' = [suggester EXCEPT ![r] = "failed"]
    /\ UNCHANGED <<variant, db, dbInit, tableOk, rows, clock, kind, raw, topics,
                   idx, results, pending, obs>>

\* catch (geminiError): return res.status(500).json({ error: "Gemini API Error", ... })
SuggestFail(r) ==
    /\ pc[r] = "suggest"
    /\ pc' = [pc EXCEPT ![r] = "done"]
    /\ response' = [response EXCEPT ![r] = ErrResponse("Gemini API Error")]
    /\ suggester' = [suggester EXCEPT ![r] = "failed"]
    /\ UNCHANGED <<variant, db, dbInit, tableOk, rows, clock, kind, raw, topics,
                   idx, results, pending, obs>>

\* An outer catch that logs the error and sends nothing
SuggestUnreadableNoAnswer(r) ==
    /\ pc[r] = "suggest"
    /\ pc' = [pc EXCEPT ![r] = "done"]
    /\ suggester' = [suggester EXCEPT ![r] = "unreadable"]
    /\ UNCHANGED <<variant, db, dbInit, tableOk, rows, clock, kind, raw, topics,
                   idx, results, pending, obs, response>>

\* generateContent resolved but geminiResponse.response.text() throws (the
\* answer was blocked): the throw is outside every inner try and reaches the
\* outer catch
SuggestUnreadable(r) ==
    /\ pc[r] = "suggest"
    /\ pc' = [pc EXCEPT ![r] = "done"]
    /\ response' = [response EXCEPT ![r] =
                       ErrResponse("An error occurred during the search.")]
    /\ suggester' = [suggester EXCEPT ![r] = "unreadable"]
    /\ UNCHANGED <<variant, db, dbInit, tableOk, rows, clock, kind, raw, topics,
                   idx, results, pending, obs>>

\* The loop as a Promise.all over the topics: every fetch is issued at once
SuggestReturnFansOut(r, text) ==
    /\ pc[r] = "suggest"
    /\ raw' = [raw EXCEPT ![r] = text]
    /\ topics' = [topics EXCEPT ![r] = ParseTopics(text)]
    /\ results' = [results EXCEPT ![r] = <<>>]
    /\ IF ParseTopics(text) = <<>>
       THEN /\ pc' = [pc EXCEPT ![r] = "done"]
            /\ response' = [response EXCEPT ![r] = OkResponse(<<>>)]
            /\ UNCHANGED <<idx, obs>>
       ELSE /\ pc' = [pc EXCEPT ![r] = "fetch"]
            /\ idx' = [idx EXCEPT ![r] = 1]
            /\ obs' = [obs EXCEPT ![r] = [i \in 1..Len(ParseTopics(text)) |-> NewObs]]
            /\ UNCHANGED response
    /\ suggester' = [suggester EXCEPT ![r] = "ok"]
    /\ UNCHANGED <<variant, db, dbInit, tableOk, rows, clock, kind, pending>>

\* The suggester answered: split the text into topics and enter the loop
SuggestReturn(r, text) ==
    /\ pc[r] = "suggest"
    /\ raw' = [raw EXCEPT ![r] = text]
    /\ topics' = [topics EXCEPT ![r] = ParseTopics(text)]
    /\ results' = [results EXCEPT ![r] = <<>>]
    /\ IF ParseTopics(text) = <<>>
       THEN /\ pc' = [pc EXCEPT ![r] = "done"]
            /\ response' = [response EXCEPT ![r] = OkResponse(<<>>)]
            /\ UNCHANGED <<idx, obs>>
       ELSE /\ pc' = [pc EXCEPT ![r] = "fetch"]
            /\ idx' = [idx EXCEPT ![r] = 1]
            /\ obs' = [obs EXCEPT ![r] = <<NewObs>>]
            /\ UNCHANGED response
    /\ suggester' = [suggester EXCEPT ![r] = "ok"]
    /\ UNCHANGED <<variant, db, dbInit, tableOk, rows, clock, kind, pending>>

\* The fetch outside its try: the rejection reaches the outer catch
FetchFailUncaught(r, msg) ==
    /\ pc[r] = "fetch"
    /\ pc' = [pc EXCEPT ![r] = "done"]
    /\ response' = [response EXCEPT ![r] =
                       ErrResponse("An error occurred during the search.")]
    /\ obs' = [obs EXCEPT ![r][idx[r]].fetch = "failed", ![r][idx[r]].error = msg]
    /\ UNCHANGED <<variant, db, dbInit, tableOk, rows, clock, kind, raw, topics,
                   idx, results, pending, suggester>>

\* The catch with a break: the placeholder is pushed and the loop is left
FetchFailBreaks(r, msg) ==
    /\ pc[r] = "fetch"
    /\ results' = [results EXCEPT ![r] = Append(results[r], FetchPlaceholder(Url(r), msg))]
    /\ pc' = [pc EXCEPT ![r] = "done"]
    /\ response' = [response EXCEPT ![r] =
                       OkResponse(Append(results[r], FetchPlaceholder(Url(r), msg)))]
    /\ obs' = [obs EXCEPT ![r][idx[r]].fetch = "failed", ![r][idx[r]].error = msg]
    /\ UNCHANGED <<variant, db, dbInit, tableOk, rows, clock, kind, raw, topics,
                   idx, pending, suggester>>

\* axios.get rejected: catch (error) pushes the fetch placeholder
FetchFail(r, msg) ==
    /\ pc[r] = "fetch"
    /\ PushAndContinue(r, FetchPlaceholder(Url(r), msg),
                       [obs EXCEPT ![r][idx[r]].fetch = "failed", ![r][idx[r]].error = msg])
    /\ UNCHANGED <<variant, db, dbInit, tableOk, rows, clock, kind, raw, topics,
                   suggester>>

\* axios.get resolved: extract the text; catch (cheerioError) pushes the parse
\* placeholder, otherwise the analysis prompt is sent to the model
FetchReturn(r, html) ==
    /\ pc[r] = "fetch"
    /\ LET obs1 == [obs EXCEPT ![r][idx[r]].fetch = "ok", ![r][idx[r]].html = html]
       IN  IF CheerioThrows(html)
           THEN PushAndContinue(r, ParsePlaceholder(Url(r)), obs1)
           ELSE /\ pc' = [pc EXCEPT ![r] = "analyse"]
                /\ obs' = [obs1 EXCEPT ![r][idx[r]].analyse = "pending"]
                /\ UNCHANGED <<idx, results, pending, response>>
    /\ UNCHANGED <<variant, db, dbInit, tableOk, rows, clock, kind, raw, topics,
                   suggester>>

\* model.generateContent(analysisPrompt) rejected, or analysisResponse
\* .response.text() threw: catch (analysisError)
AnalyseFail(r) ==
    /\ pc[r] = "analyse"
    /\ PushAndContinue(r, AnalysisPlaceholder(Url(r)), SetObs(r, "analyse", "failed"))
    /\ UNCHANGED <<variant, db, dbInit, tableOk, rows, clock, kind, raw, topics,
                   suggester>>

\* The guard as `if (db && ...)`: without a handle the insert is skipped and
\* the analysis is pushed as it is
AnalyseReturnSkipsStore(r, text) ==
    /\ pc[r] = "analyse"
    /\ LET cleaned == CleanJsonText(text)
           obs1 == [obs EXCEPT ![r][idx[r]].analyse = "ok", ![r][idx[r]].text = text]
       IN  IF ~JsonParses(cleaned)
           THEN \* JSON.parse throws SyntaxError
                PushAndContinue(r, AnalysisPlaceholder(Url(r)), obs1)
           ELSE LET json == JsonParse(cleaned)
                IN  IF json.type = "null"
                    THEN \* reading a property of null throws TypeError
                         PushAndContinue(r, AnalysisPlaceholder(Url(r)), obs1)
                    ELSE IF PersistGuard(variant, json)
                    THEN LET obs2 == [obs1 EXCEPT ![r][idx[r]].guard = TRUE]
                         IN  IF db = "undefined"
                             THEN PushAndContinue(r, AnalysisEntry(variant, Url(r), json),
                                                  obs2)
                             ELSE /\ pc' = [pc EXCEPT ![r] = "insert"]
                                  /\ pending' = [pending EXCEPT ![r] =
                                        [json |-> json,
                                         params |-> InsertParams(variant, Url(r), json)]]
                                  /\ obs' = [obs2 EXCEPT ![r][idx[r]].insert = "issued"]
                                  /\ UNCHANGED <<idx, results, response>>
                    ELSE PushAndContinue(r, AnalysisEntry(variant, Url(r), json), obs1)
    /\ UNCHANGED <<variant, db, dbInit, tableOk, rows, clock, kind, raw, topics,
                   suggester>>

\* The analysis text arrived: clean it, parse it, score it, and either issue
\* the insert, push the entry, or land in catch (analysisError)
AnalyseReturn(r, text) ==
    /\ pc[r] = "analyse"
    /\ LET cleaned == CleanJsonText(text)
           obs1 == [obs EXCEPT ![r][idx[r]].analyse = "ok", ![r][idx[r]].text = text]
       IN  IF ~JsonParses(cleaned)
           THEN \* JSON.parse throws SyntaxError
                PushAndContinue(r, AnalysisPlaceholder(Url(r)), obs1)
           ELSE LET json == JsonParse(cleaned)
                IN  IF json.type = "null"
                    THEN \* reading a property of null throws TypeError
                         PushAndContinue(r, AnalysisPlaceholder(Url(r)), obs1)
                    ELSE IF PersistGuard(variant, json)
                    THEN LET obs2 == [obs1 EXCEPT ![r][idx[r]].guard = TRUE]
                         IN  IF db = "undefined"
                             THEN \* db.run on undefined throws TypeError
                                  PushAndContinue(r, AnalysisPlaceholder(Url(r)),
                                      [obs2 EXCEPT ![r][idx[r]].insert = "threw"])
                             ELSE /\ pc' = [pc EXCEPT ![r] = "insert"]
                                  /\ pending' = [pending EXCEPT ![r] =
                                        [json |-> json,
                                         params |-> InsertParams(variant, Url(r), json)]]
                                  /\ obs' = [obs2 EXCEPT ![r][idx[r]].insert = "issued"]
                                  /\ UNCHANGED <<idx, results, response>>
                    ELSE PushAndContinue(r, AnalysisEntry(variant, Url(r), json), obs1)
    /\ UNCHANGED <<variant, db, dbInit, tableOk, rows, clock, kind, raw, topics,
                   suggester>>

\* The engine executes the INSERT of db.run: one statement, one row, stamped
\* with CURRENT_TIMESTAMP, which is now: no earlier than the last time read
StoreInsert(r, now) ==
    /\ pc[r] = "insert"
    /\ tableOk
    /\ ~ViolatesNotNull(pending[r].params)
    /\ now >= clock
    /\ clock' = now
    /\ rows' = Append(rows, NewRow(rows, pending[r].params, now, <<r, idx[r]>>))
    /\ pc' = [pc EXCEPT ![r] = "inserted"]
    /\ obs' = SetObs(r, "insert", "ok")
    /\ UNCHANGED <<variant, db, dbInit, tableOk, kind, raw, topics, idx,
                   results, pending, suggester, response>>

\* The engine rejects the INSERT: no such table, a NOT NULL violation, or an
\* I/O fault (SQLITE_BUSY, SQLITE_FULL, ...)
StoreInsertFail(r) ==
    /\ pc[r] = "insert"
    /\ pc' = [pc EXCEPT ![r] = "insertFailed"]
    /\ obs' = SetObs(r, "insert", "failed")
    /\ UNCHANGED <<variant, db, dbInit, tableOk, rows, clock, kind, raw, topics,
                   idx, results, pending, suggester, response>>

\* await db.run(...) resolved: results.push({ link, idea, ... })
InsertReturn(r) ==
    /\ pc[r] = "inserted"
    /\ PushAndContinue(r, AnalysisEntry(variant, Url(r), pending[r].json), obs)
    /\ UNCHANGED <<variant, db, dbInit, tableOk, rows, clock, kind, raw, topics,
                   suggester>>

\* The rejection of db.run as it would travel were the await outside the
\* analysis try: through the loop to the outer catch, which answers 500
InsertThrowUncaught(r) ==
    /\ pc[r] = "insertFailed"
    /\ pc' = [pc EXCEPT ![r] = "done"]
    /\ pending' = [pending EXCEPT ![r] = NoPending]
    /\ response' = [response EXCEPT ![r] = ErrResponse("An error occurred during the search.")]
    /\ UNCHANGED <<variant, db, dbInit, tableOk, rows, clock, kind, raw, topics,
                   idx, results, suggester, obs>>

\* await db.run(...) rejected inside the analysis try: catch (analysisError)
InsertThrow(r) ==
    /\ pc[r] = "insertFailed"
    /\ PushAndContinue(r, AnalysisPlaceholder(Url(r)), obs)
    /\ UNCHANGED <<variant, db, dbInit, tableOk, rows, clock, kind, raw, topics,
                   suggester>>

-----------------------------------------------------------------------------
(* GET /history *)

\* The handler runs up to await db.all(...); db.all on undefined throws
\* TypeError, which the catch turns into a 500
HistoryStart(r) ==
    /\ kind[r] = "history"
    /\ pc[r] = "idle"
    /\ IF db = "undefined"
       THEN /\ pc' = [pc EXCEPT ![r] = "done"]
            /\ response' = [response EXCEPT ![r] =
                               ErrResponse("Failed to retrieve search history.")]
       ELSE /\ pc' = [pc EXCEPT ![r] = "all"]
            /\ UNCHANGED response
    /\ UNCHANGED <<variant, db, dbInit, tableOk, rows, clock, kind, raw, topics,
                   idx, results, pending, suggester, obs>>

\* db.all resolved: res.json(history)
HistoryReturn(r) ==
    /\ pc[r] = "all"
    /\ tableOk
    /\ \E history \in HistoryOrders(rows) :
          response' = [response EXCEPT ![r] =
              OkResponse([i \in 1..Len(history) |-> SelectColumns(variant, history[i])])]
    /\ pc' = [pc EXCEPT ![r] = "done"]
    /\ UNCHANGED <<variant, db, dbInit, tableOk, rows, clock, kind, raw, topics,
                   idx, results, pending, suggester, obs>>

\* db.all rejected (no such table, I/O fault): catch (err) answers 500
HistoryFail(r) ==
    /\ pc[r] = "all"
    /\ pc' = [pc EXCEPT ![r] = "done"]
    /\ response' = [response EXCEPT ![r] =
                       ErrResponse("Failed to retrieve search history.")]
    /\ UNCHANGED <<variant, db, dbInit, tableOk, rows, clock, kind, raw, topics,
                   idx, results, pending, suggester, obs>>

-----------------------------------------------------------------------------

Next ==
    \/ \E outcome \in {"ok", "openFailed", "execFailed"} : DbInitialize(outcome)
    \/ \E r \in Requests : SearchStart(r)
    \/ \E r \in Requests : SuggestFail(r)
    \/ \E r \in Requests : SuggestUnreadable(r)
    \/ \E r \in Requests, text \in RawTexts : SuggestReturn(r, text)
    \/ \E r \in Requests, msg \in FetchErrors : FetchFail(r, msg)
    \/ \E r \in Requests, html \in Htmls : FetchReturn(r, html)
    \/ \E r \in Requests : AnalyseFail(r)
    \/ \E r \in Requests, text \in AnalysisTexts : AnalyseReturn(r, text)
    \/ \E r \in Requests, now \in 0..MaxClock : StoreInsert(r, now)
    \/ \E r \in Requests : StoreInsertFail(r)
    \/ \E r \in Requests : InsertReturn(r)
    \/ \E r \in Requests : InsertThrow(r)
    \/ \E r \in Requests : HistoryStart(r)
    \/ \E r \in Requests : HistoryReturn(r)
    \/ \E r \in Requests : HistoryFail(r)

Spec == Init /\ [][Next]_vars

-----------------------------------------------------------------------------
(* The scoring of one analysis: an extended-variant request that has fetched *)
(* its only topic and awaits the analysis, which then returns sub-scores     *)
(* from all over 0..MaxScore                                                 *)

ScoreTexts ==
    { <<Json(JsonObject(FullJson.businessIdea, Missing, p, a, m, f))>> :
          p \in 0..MaxScore, a \in {0, 60, MaxScore}, m \in {0, 40, MaxScore},
          f \in {0, 90, MaxScore} }

ScoreInit ==
    /\ variant = "extended"
    /\ db = "open"
    /\ dbInit = "done"
    /\ tableOk = TRUE
    /\ rows = <<>>
    /\ clock = 0
    /\ kind \in Workloads
    /\ pc = [r \in Requests |-> IF kind[r] = "search" THEN "analyse" ELSE "idle"]
    /\ raw = [r \in Requests |-> IF kind[r] = "search" THEN <<"a">> ELSE <<>>]
    /\ topics = [r \in Requests |-> ParseTopics(raw[r])]
    /\ idx = [r \in Requests |-> IF kind[r] = "search" THEN 1 ELSE 0]
    /\ results = [r \in Requests |-> <<>>]
    /\ pending = [r \in Requests |-> NoPending]
    /\ suggester = [r \in Requests |-> IF kind[r] = "search" THEN "ok" ELSE "none"]
    /\ obs = [r \in Requests |->
                IF kind[r] = "search"
                THEN <<[NewObs EXCEPT !.fetch = "ok",
                                      !.html = "<html><body>posts</body></html>",
                                      !.analyse = "pending"]>>
                ELSE <<>>]
    /\ response = [r \in Requests |-> NoResponse]

ScoreNext ==
    \/ \E r \in Requests, text \in ScoreTexts : AnalyseReturn(r, text)
    \/ \E r \in Requests, now \in 0..MaxClock : StoreInsert(r, now)
    \/ \E r \in Requests : InsertReturn(r)

SpecScore == ScoreInit /\ [][ScoreNext]_vars

-----------------------------------------------------------------------------
(* The normalisation of one topic: a request that awaits the suggester,      *)
(* which then returns one line of any characters of TopicAlphabet, and whose *)
(* fetch then fails, so that the URL shows in the answer                     *)

\* Longest line the suggester returns here
MaxTopicLen == 4

TopicAlphabet == {"r", "R", "/", "a", " "}

RECURSIVE TopicLines(_)
TopicLines(n) ==
    IF n = 0 THEN { <<>> }
    ELSE LET shorter == TopicLines(n - 1)
         IN  shorter \cup { Append(t, c) : t \in { x \in shorter : Len(x) = n - 1 },
                                           c \in TopicAlphabet }

TopicInit ==
    /\ variant \in {"simple", "extended"}
    /\ db = "undefined"
    /\ dbInit = "pending"
    /\ tableOk = FALSE
    /\ rows = <<>>
    /\ clock = 0
    /\ kind \in Workloads
    /\ pc = [r \in Requests |-> IF kind[r] = "search" THEN "suggest" ELSE "idle"]
    /\ raw = [r \in Requests |-> <<>>]
    /\ topics = [r \in Requests |-> <<>>]
    /\ idx = [r \in Requests |-> 0]
    /\ results = [r \in Requests |-> <<>>]
    /\ pending = [r \in Requests |-> NoPending]
    /\ suggester = [r \in Requests |-> IF kind[r] = "search" THEN "called" ELSE "none"]
    /\ obs = [r \in Requests |-> <<>>]
    /\ response = [r \in Requests |-> NoResponse]

TopicNext ==
    \/ \E r \in Requests, text \in TopicLines(MaxTopicLen) : SuggestReturn(r, text)
    \/ \E r \in Requests, msg \in FetchErrors : FetchFail(r, msg)

SpecTopic == TopicInit /\ [][TopicNext]_vars

-----------------------------------------------------------------------------
(* Two concurrent /search requests on an initialised store: the suggester    *)
(* gives each of them one or two topics, and every call of either request    *)
(* returns or fails while the other request is anywhere in its own handler   *)

ConcTexts == { JoinLines(<< <<"a">> >>),
               JoinLines(<< <<"r", "/", "b">>, <<"a">> >>) }

ConcAnalysisTexts == { <<Json(FullJson)>>, <<Garbage>> }

ConcInit ==
    /\ variant \in {"simple", "extended"}
    /\ db = "open"
    /\ dbInit = "done"
    /\ tableOk = TRUE
    /\ rows = <<>>
    /\ clock = 0
    /\ kind = [r \in Requests |-> "search"]
    /\ pc = [r \in Requests |-> "idle"]
    /\ raw = [r \in Requests |-> <<>>]
    /\ topics = [r \in Requests |-> <<>>]
    /\ idx = [r \in Requests |-> 0]
    /\ results = [r \in Requests |-> <<>>]
    /\ pending = [r \in Requests |-> NoPending]
    /\ suggester = [r \in Requests |-> "none"]
    /\ obs = [r \in Requests |-> <<>>]
    /\ response = [r \in Requests |-> NoResponse]

ConcNext ==
    \/ \E r \in Requests : SearchStart(r)
    \/ \E r \in Requests : SuggestFail(r)
    \/ \E r \in Requests : SuggestUnreadable(r)
    \/ \E r \in Requests, text \in ConcTexts : SuggestReturn(r, text)
    \/ \E r \in Requests, msg \in FetchErrors : FetchFail(r, msg)
    \/ \E r \in Requests, html \in Htmls : FetchReturn(r, html)
    \/ \E r \in Requests : AnalyseFail(r)
    \/ \E r \in Requests, text \in ConcAnalysisTexts : AnalyseReturn(r, text)
    \/ \E r \in Requests, now \in 0..MaxClock : StoreInsert(r, now)
    \/ \E r \in Requests : StoreInsertFail(r)
    \/ \E r \in Requests : InsertReturn(r)
    \/ \E r \in Requests : InsertThrow(r)

SpecConcurrent == ConcInit /\ [][ConcNext]_vars

\* The call request r awaits returns or fails, and the handler resumes
CallCompletes(r) ==
    \/ SuggestFail(r)
    \/ SuggestUnreadable(r)
    \/ \E text \in ConcTexts : SuggestReturn(r, text)
    \/ \E msg \in FetchErrors : FetchFail(r, msg)
    \/ \E html \in Htmls : FetchReturn(r, html)
    \/ AnalyseFail(r)
    \/ \E text \in ConcAnalysisTexts : AnalyseReturn(r, text)
    \/ \E now \in 0..MaxClock : StoreInsert(r, now)
    \/ StoreInsertFail(r)
    \/ InsertReturn(r)
    \/ InsertThrow(r)

\* The concurrent requests where no call stays out for ever: whichever call a
\* request awaits eventually returns or fails.  The code sets no timeout and
\* cancels nothing, so this is an assumption on the model API, the HTTP
\* client and the store, not something the handler brings about.
SpecFair == ConcInit /\ [][ConcNext]_vars /\ \A r \in Requests : WF_vars(CallCompletes(r))

-----------------------------------------------------------------------------
(* Properties *)

Searches == { r \in Requests : kind[r] = "search" }
Histories == { r \in Requests : kind[r] = "history" }

\* The number of lines of a text that hold a character other than white
\* space, counted in one pass over the characters
RECURSIVE CountNonBlank(_, _)
CountNonBlank(s, seen) ==
    IF s = <<>> THEN 0
    ELSE IF Head(s) = "\n" THEN CountNonBlank(Tail(s), FALSE)
    ELSE IF ~IsSpace(Head(s)) /\ ~seen THEN 1 + CountNonBlank(Tail(s), TRUE)
    ELSE CountNonBlank(Tail(s), seen)

NonBlankLineCount(text) == CountNonBlank(text, FALSE)

\* C1: a 200 response of /search is a list with exactly one entry per
\* non-blank line of the suggester's raw output, and the i-th entry is the
\* entry of the i-th topic: its link is the URL built from that topic.
C1_OneEntryPerTopic ==
    \A r \in Searches :
        response[r].status = 200 =>
            /\ Len(response[r].list) = NonBlankLineCount(raw[r])
            /\ Len(topics[r]) = NonBlankLineCount(raw[r])
            /\ \A i \in 1..Len(response[r].list) :
                   response[r].list[i].link = RedditUrl(topics[r][i])

\* A finished search of two topics in a text with a blank line, the first
\* topic answered by a placeholder and the second by a real analysis
C1_Witness ==
    \E r \in Searches :
        /\ response[r].status = 200
        /\ Len(response[r].list) = 2
        /\ Len(SplitLines(raw[r])) = 3
        /\ response[r].list[1].scores = <<0>>
        /\ response[r].list[2].idea = FullJson.businessIdea
        /\ response[r].list[1].link # response[r].list[2].link

\* C2: when the topic suggester call fails the request fails as a whole: it
\* answers 500 with an error object and no result list, no topic is fetched,
\* extracted or analysed, and the failing step leaves the store unchanged.
C2_SuggesterFailureIsFatal ==
    [][\A r \in Searches :
          suggester'[r] = "failed" =>
              /\ pc'[r] = "done"
              /\ response'[r].status = 500
              /\ response'[r].error = "Gemini API Error"
              /\ response'[r].list = <<>>
              /\ topics'[r] = <<>> /\ obs'[r] = <<>> /\ results'[r] = <<>>
              /\ \A i \in 1..Len(rows') : rows'[i].origin[1] # r
              /\ (suggester[r] = "called" => rows' = rows)]_vars

C2_Witness ==
    \E r \in Searches : suggester[r] = "failed" /\ response[r].status = 500

\* Some stage of topic i of request r failed
TopicFailed(o) ==
    \/ o.fetch = "failed"
    \/ o.fetch = "ok" /\ CheerioThrows(o.html)
    \/ o.analyse = "failed"
    \/ o.analyse = "ok" /\ ~JsonParses(CleanJsonText(o.text))
    \/ o.insert \in {"failed", "threw"}

\* C3: once the suggester has answered, no per-topic failure aborts the
\* request: it never answers 500, and when it has answered (200) every topic
\* has been taken up and has its entry, whatever failed on the way.
C3_TopicFailuresAreIsolated ==
    \A r \in Searches :
        suggester[r] = "ok" =>
            /\ response[r].status # 500
            /\ pc[r] = "done" =>
                   /\ response[r].status = 200
                   /\ Len(obs[r]) = Len(topics[r])
                   /\ Len(response[r].list) = Len(topics[r])

\* A request that answered 200 although both of its topics failed, in two
\* different stages
C3_Witness ==
    \E r \in Searches :
        /\ response[r].status = 200
        /\ Len(obs[r]) = 2
        /\ TopicFailed(obs[r][1]) /\ TopicFailed(obs[r][2])
        /\ obs[r][1].fetch = "failed"
        /\ obs[r][2].analyse = "ok" /\ ~JsonParses(CleanJsonText(obs[r][2].text))

\* The rows the insert of topic i of request r left in the table
RowsOf(r, i) == { k \in 1..Len(rows) : rows[k].origin = <<r, i>> }

\* What the analysis text of an observed topic parses to
ParsedJson(o) == JsonParse(CleanJsonText(o.text))
ParsesToObject(o) ==
    /\ o.analyse = "ok"
    /\ JsonParses(CleanJsonText(o.text))
    /\ ParsedJson(o).type = "object"

\* The entry of a topic as a function of that topic and of what its own
\* stages returned, and of nothing else
OwnEntry(v, topic, o) ==
    IF o.fetch = "failed" THEN FetchPlaceholder(RedditUrl(topic), o.error)
    ELSE IF CheerioThrows(o.html) THEN ParsePlaceholder(RedditUrl(topic))
    ELSE IF ~ParsesToObject(o) \/ o.insert \in {"failed", "threw"}
         THEN AnalysisPlaceholder(RedditUrl(topic))
    ELSE AnalysisEntry(v, RedditUrl(topic), ParsedJson(o))

\* C4: a topic whose fetch fails gets a placeholder entry with score 0 and an
\* idea that describes the fetch error; no extraction, analysis or insert
\* runs for it; the entry and the rows of every topic are determined by that
\* topic's own stages alone, so they are what they would be had the fetch of
\* another topic not failed; and the request still answers for every topic.
C4_FetchFailureIsIsolated ==
    \A r \in Searches :
        /\ \A i \in 1..Len(obs[r]) :
              obs[r][i].fetch = "failed" =>
                  /\ obs[r][i].html = "" /\ obs[r][i].analyse = "none"
                  /\ obs[r][i].text = <<>> /\ obs[r][i].insert = "none"
                  /\ RowsOf(r, i) = {}
                  /\ i <= Len(results[r]) =>
                        /\ results[r][i].scores = <<0>>
                        /\ results[r][i].link = RedditUrl(topics[r][i])
                        /\ \E msg \in FetchErrors :
                              results[r][i].idea =
                                  "Error fetching the subreddit page: " \o msg
        /\ \A i \in 1..Len(results[r]) :
              results[r][i] = OwnEntry(variant, topics[r][i], obs[r][i])
        /\ \A i \in 1..Len(obs[r]) :
              /\ Cardinality(RowsOf(r, i)) = IF obs[r][i].insert = "ok" THEN 1 ELSE 0
              /\ \A k \in RowsOf(r, i) :
                    LET p == InsertParams(variant, RedditUrl(topics[r][i]),
                                          ParsedJson(obs[r][i]))
                    IN  /\ rows[k].subreddit = p.subreddit
                        /\ rows[k].idea = p.idea
                        /\ rows[k].scores = p.scores
        /\ (suggester[r] = "ok" /\ pc[r] = "done") =>
              response[r] = OkResponse(results[r]) /\ Len(results[r]) = Len(topics[r])

\* Two finished runs' worth of evidence in one: a request whose first topic
\* failed to fetch while its second topic was analysed and stored
C4_Witness ==
    \E r \in Searches :
        /\ response[r].status = 200
        /\ Len(response[r].list) = 2
        /\ obs[r][1].fetch = "failed"
        /\ response[r].list[1].scores = <<0>>
        /\ obs[r][2].insert = "ok"
        /\ response[r].list[2].idea = FullJson.businessIdea
        /\ RowsOf(r, 2) # {}

\* First half of C5 (holds): a failed analysis call, or output that is not
\* JSON once the fence markers are stripped, gives the fixed analysis
\* placeholder with score 0, persists no row and never ends in a 500.
AnalysisFailureGivesPlaceholder ==
    \A r \in Searches : \A i \in 1..Len(results[r]) :
        (\/ obs[r][i].analyse = "failed"
         \/ obs[r][i].analyse = "ok" /\ ~JsonParses(CleanJsonText(obs[r][i].text))) =>
            /\ results[r][i] =
                  Entry(RedditUrl(topics[r][i]), "Could not generate or parse analysis.", <<0>>)
            /\ obs[r][i].insert = "none"
            /\ RowsOf(r, i) = {}
            /\ response[r].status # 500

\* Second half of C5: output that is a JSON object once the fence markers are
\* stripped is accepted as a real analysis
ValidJsonIsAccepted ==
    \A r \in Searches : \A i \in 1..Len(results[r]) :
        ParsesToObject(obs[r][i]) =>
            results[r][i] =
                AnalysisEntry(variant, RedditUrl(topics[r][i]), ParsedJson(obs[r][i]))

\* C5: a failed analysis step gives the analysis placeholder and no row and is
\* never fatal, and output that is valid JSON once the fence markers are
\* stripped is accepted as a real analysis.
C5_AnalysisFailureOrAccepted ==
    AnalysisFailureGivesPlaceholder /\ ValidJsonIsAccepted

\* The condition C6 puts on a record for it to be persisted
IdeaNonEmpty(idea) == idea # "" /\ idea # UndefinedIdea
ShouldPersist(v, json) ==
    /\ IdeaNonEmpty(json.businessIdea)
    /\ v = "simple" => json.gapProbability \notin {0, Missing}

\* Second half of C6 (holds): every row in the store has a non-empty idea and,
\* in the simple variant, a non-zero probability
RowsHaveIdea ==
    \A k \in 1..Len(rows) :
        /\ IdeaNonEmpty(rows[k].idea)
        /\ variant = "simple" => rows[k].scores[1] \notin {0, Missing}

\* C6: the record of an analysed topic is persisted if and only if its idea
\* is non-empty (and, in the simple variant, its probability truthy); so
\* every row of the store has a non-empty idea (and a non-zero probability).
C6_PersistedIffIdea ==
    /\ \A r \in Searches : \A i \in 1..Len(results[r]) :
          ParsesToObject(obs[r][i]) =>
              (RowsOf(r, i) # {} <=> ShouldPersist(variant, ParsedJson(obs[r][i])))
    /\ RowsHaveIdea

\* The arrangements of the table that C7 allows: createdAt descending and,
\* where createdAt is equal, the later insert (higher id) first
NewestFirstOrders(table) ==
    { h \in HistoryOrders(table) :
        \A i \in 1..Len(h) :
            (i < Len(h) /\ h[i].createdAt = h[i + 1].createdAt) => h[i].id > h[i + 1].id }

\* The step in which request r receives its answer
Answers(r) == response[r].status = 0 /\ response'[r].status # 0

\* C7: /history returns all persisted rows ordered by createdAt descending,
\* rows with equal createdAt with the later insert (higher id) first.
C7_HistoryNewestFirst ==
    [][\A r \in Histories :
          (Answers(r) /\ response'[r].status = 200) =>
              \E h \in NewestFirstOrders(rows) :
                  response'[r].list = [i \in 1..Len(h) |-> SelectColumns(variant, h[i])]]_vars

\* C8: a /history request served while the store holds no rows answers 200
\* with an empty array, never an error, whenever it arrives.
C8_EmptyHistoryIs200 ==
    [][\A r \in Histories :
          (Answers(r) /\ rows = <<>>) => response'[r] = OkResponse(<<>>)]_vars

\* C9: the store is append-only and its records immutable: a step leaves the
\* table as it is or adds one row behind the others, a new row's id is above
\* every id given before, and no step of a /history request changes the table.
C9_AppendOnly ==
    [][/\ \/ rows' = rows
          \/ /\ Len(rows') = Len(rows) + 1
             /\ SubSeq(rows', 1, Len(rows)) = rows
             /\ \A k \in 1..Len(rows) : rows[k].id < rows'[Len(rows')].id
       /\ \A r \in Histories : (pc'[r] # pc[r] \/ response'[r] # response[r]) => rows' = rows
      ]_vars

\* Two rows are stored and a /history request has been answered from them
C9_Witness ==
    /\ Len(rows) = 2
    /\ rows[1].id < rows[2].id
    /\ \E r \in Histories : response[r].status = 200 /\ Len(response[r].list) = 2

\* tenths / 10 is the mean of the four sub-scores rounded to one decimal
\* place (a mean half-way between two tenths goes to the upper one)
IsMeanToOneDecimal(tenths, p, a, m, f) ==
    LET sum == p + a + m + f
    IN  -2 < 4 * tenths - 10 * sum /\ 4 * tenths - 10 * sum <= 2

InRange(scores) == \A i \in 1..4 : scores[i] \in 0..MaxScore

\* C10: in the extended variant, for integer sub-scores in 0..100, the
\* overall score bound to the insert, stored in the row and sent in the
\* response is their arithmetic mean rounded to one decimal place;
\* (80, 60, 40, 90) gives 67.5.
C10_OverallIsRoundedMean ==
    /\ \A r \in Searches :
          /\ (pc[r] \in {"insert", "inserted"} /\ InRange(pending[r].params.scores)) =>
                LET sc == pending[r].params.scores
                IN  /\ IsMeanToOneDecimal(sc[5], sc[1], sc[2], sc[3], sc[4])
                    /\ <<sc[1], sc[2], sc[3], sc[4]>> = <<80, 60, 40, 90>> => sc[5] = 675
          /\ \A i \in 1..Len(results[r]) :
                LET sc == results[r][i].scores
                IN  (Len(sc) = 5 /\ InRange(sc)) =>
                        IsMeanToOneDecimal(sc[5], sc[1], sc[2], sc[3], sc[4])
    /\ \A k \in 1..Len(rows) :
          LET sc == rows[k].scores
          IN  (Len(sc) = 5 /\ InRange(sc)) =>
                  /\ IsMeanToOneDecimal(sc[5], sc[1], sc[2], sc[3], sc[4])
                  /\ <<sc[1], sc[2], sc[3], sc[4]>> = <<80, 60, 40, 90>> => sc[5] = 675

\* The example of the claim has been scored, stored and sent
C10_Witness ==
    /\ variant = "extended"
    /\ \E k \in 1..Len(rows) : rows[k].scores = <<80, 60, 40, 90, 675>>
    /\ \E r \in Searches :
          /\ response[r].status = 200
          /\ response[r].list[1].scores = <<80, 60, 40, 90, 675>>

\* The topic starts with the marker "r/", as C11 writes it
StartsWithMarker(t) == Len(t) >= 2 /\ t[1] = "r" /\ t[2] = "/"

\* The topic starts with the marker in either case, as the /i flag takes it
StartsWithMarkerAnyCase(t) == Len(t) >= 2 /\ t[1] \in {"r", "R"} /\ t[2] = "/"

Base == <<"https://www.reddit.com/r/">>

\* C11 as stated: a topic that, trimmed, starts with "r/" has exactly that
\* one marker stripped, any other topic is used as it is (trimmed), and the
\* URL is the base, "/r/" and the normalised topic.
C11_StripsLowercaseMarkerOnly ==
    \A r \in Searches : \A i \in 1..Len(results[r]) :
        LET t == Trim(topics[r][i])
        IN  /\ StartsWithMarker(t) => results[r][i].link = Base \o SubSeq(t, 3, Len(t))
            /\ ~StartsWithMarker(t) => results[r][i].link = Base \o t

\* C11 as amended: the marker is matched without regard to case: a topic
\* that, trimmed, starts with "r/" or "R/" has exactly that one marker
\* stripped; any other topic is used as it is, trimmed.
C11_StripsOneMarkerAnyCase ==
    \A r \in Searches : \A i \in 1..Len(results[r]) :
        LET t == Trim(topics[r][i])
            link == results[r][i].link
        IN  /\ Head(link) = Head(Base)
            /\ StartsWithMarkerAnyCase(t) => <<t[1], "/">> \o Tail(link) = t
            /\ ~StartsWithMarkerAnyCase(t) => Tail(link) = t

\* A topic of two markers in a row has lost exactly one of them: the URL
\* still ends with the other
C11_Witness ==
    \E r \in Searches :
        /\ response[r].status = 200
        /\ topics[r] = << <<"r", "/", "r", "/">> >>
        /\ response[r].list[1].link = Base \o <<"r", "/">>

\* The insert of topic i of request r was rejected and the rejection has
\* been thrown into the handler
InsertRejected(r, i) ==
    /\ i \in 1..Len(obs[r])
    /\ obs[r][i].insert = "failed"
    /\ ~(idx[r] = i /\ pc[r] = "insertFailed")

\* C12 as stated: a rejected insert is not handled per topic: the request
\* gets no result list (it answers 500), the topic gets no entry and no
\* later topic is processed.
C12_InsertFailureAborts ==
    \A r \in Searches : \A i \in 1..Len(obs[r]) :
        InsertRejected(r, i) =>
            /\ response[r].status # 200
            /\ Len(results[r]) < i
            /\ Len(obs[r]) = i

\* C12 as amended: a rejected insert is handled per topic: the topic's entry
\* is the analysis placeholder (score 0) under the topic's URL, no row is
\* stored for it, the next topic (if any) is started, the request never
\* answers 500, and its answer is the 200 result list with one entry per
\* topic.
C12_InsertFailureIsIsolated ==
    \A r \in Searches : \A i \in 1..Len(obs[r]) :
        InsertRejected(r, i) =>
            /\ Len(results[r]) >= i
            /\ results[r][i] = [link |-> RedditUrl(topics[r][i]),
                                idea |-> "Could not generate or parse analysis.",
                                scores |-> <<0>>]
            /\ RowsOf(r, i) = {}
            /\ i < Len(topics[r]) => Len(obs[r]) > i
            /\ response[r].status # 500
            /\ pc[r] = "done" =>
                   /\ response[r].status = 200
                   /\ response[r].list = results[r]
                   /\ Len(results[r]) = Len(topics[r])

\* The insert of the first of two topics was rejected, the second topic was
\* analysed and stored, and the request answered 200 with both entries
C12_Witness ==
    \E r \in Searches :
        /\ Len(topics[r]) = 2
        /\ InsertRejected(r, 1)
        /\ obs[r][2].insert = "ok"
        /\ response[r].status = 200
        /\ Len(response[r].list) = 2

\* Fetch, extraction and analysis of an observed topic all succeeded: the
\* page came, cheerio loaded it, the analysis text parsed to a JSON object
StagesSucceeded(o) ==
    /\ o.fetch = "ok"
    /\ ~CheerioThrows(o.html)
    /\ ParsesToObject(o)

\* The entry is one of the three placeholders: score 0 and a fixed message
IsPlaceholder(e) ==
    /\ e.scores = <<0>>
    /\ \/ e.idea \in {"Error parsing the subreddit page.",
                      "Could not generate or parse analysis."}
       \/ \E msg \in FetchErrors : e.idea = "Error fetching the subreddit page: " \o msg

\* The one row of topic i of request r carries the idea and the scores of e
RowMatchesEntry(r, i, e) ==
    /\ Cardinality(RowsOf(r, i)) = 1
    /\ \A k \in RowsOf(r, i) :
          /\ rows[k].idea = e.idea
          /\ rows[k].scores = e.scores
          /\ rows[k].subreddit = e.link

\* C13 as stated: every topic whose fetch, extraction and analysis all
\* succeeded has a row in the store and an entry with the same idea and
\* scores as that row; no topic whose entry is a placeholder has a row.
C13_SuccessIsPersisted ==
    \A r \in Searches : \A i \in 1..Len(results[r]) :
        /\ StagesSucceeded(obs[r][i]) => RowMatchesEntry(r, i, results[r][i])
        /\ IsPlaceholder(results[r][i]) => RowsOf(r, i) = {}

\* C13 as amended: for a topic whose fetch, extraction and analysis all
\* succeeded, (a) if the record has a non-empty idea (and, in the simple
\* variant, a non-zero probability) an insert is attempted, and when it
\* succeeds there is exactly one row for the topic and the entry carries the
\* idea and scores of that row, which are those of the analysis; when it does
\* not succeed the entry is the analysis placeholder and there is no row;
\* (b) otherwise no insert is attempted, there is no row and the entry still
\* carries the analysis.  No topic whose entry is a placeholder has a row.
C13_GuardedSuccessIsPersisted ==
    \A r \in Searches : \A i \in 1..Len(results[r]) :
        LET o == obs[r][i]
            e == results[r][i]
        IN  /\ (StagesSucceeded(o) /\ ShouldPersist(variant, ParsedJson(o))) =>
                  /\ o.insert \in {"ok", "failed", "threw"}
                  /\ o.insert = "ok" =>
                        /\ RowMatchesEntry(r, i, e)
                        /\ e.idea = ParsedJson(o).businessIdea
                        /\ ~IsPlaceholder(e)
                  /\ o.insert # "ok" =>
                        /\ RowsOf(r, i) = {}
                        /\ e.idea = "Could not generate or parse analysis."
                        /\ e.scores = <<0>>
            /\ (StagesSucceeded(o) /\ ~ShouldPersist(variant, ParsedJson(o))) =>
                  /\ o.insert = "none"
                  /\ RowsOf(r, i) = {}
                  /\ e.idea = ParsedJson(o).businessIdea
            /\ IsPlaceholder(e) => RowsOf(r, i) = {}

\* One request whose first topic was stored and answered with the stored idea
\* and whose second topic, analysed with an empty idea, was answered
\* without a row
C13_Witness ==
    \E r \in Searches :
        /\ Len(results[r]) = 2
        /\ obs[r][1].insert = "ok"
        /\ RowMatchesEntry(r, 1, results[r][1])
        /\ results[r][1].idea = "Budget coach app"
        /\ StagesSucceeded(obs[r][2])
        /\ results[r][2].idea = ""
        /\ RowsOf(r, 2) = {}

\* The external calls of request r that have been issued and whose await
\* has not resumed: the suggester call, the fetches and analysis calls that
\* are pending, and the inserts that were issued and whose topic has no
\* entry yet
OutstandingCalls(r) ==
    (IF suggester[r] = "called" THEN 1 ELSE 0)
    + Cardinality({ i \in 1..Len(obs[r]) : obs[r][i].fetch = "pending" })
    + Cardinality({ i \in 1..Len(obs[r]) : obs[r][i].analyse = "pending" })
    + Cardinality({ i \in 1..Len(obs[r]) :
                      /\ obs[r][i].insert \in {"issued", "ok", "failed"}
                      /\ Len(results[r]) < i })

\* C14: within one /search request the steps are strictly sequential: a
\* topic's analysis is started only after its fetch and extraction succeeded
\* and its insert only after its analysis succeeded; no call for a topic is
\* started before the suggester answered and every earlier topic has its
\* entry; the request never has more than one external call outstanding.
C14_StrictlySequential ==
    \A r \in Searches :
        /\ OutstandingCalls(r) <= 1
        /\ Len(obs[r]) <= Len(results[r]) + 1
        /\ obs[r] # <<>> => suggester[r] = "ok"
        /\ \A i \in 1..Len(obs[r]) :
              LET o == obs[r][i]
              IN  /\ o.analyse # "none" => (o.fetch = "ok" /\ ~CheerioThrows(o.html))
                  /\ o.insert # "none" => (o.analyse = "ok" /\ ParsesToObject(o))

\* The insert of the second topic is outstanding, after the first topic went
\* through fetch, analysis and insert and got its entry
C14_Witness ==
    \E r \in Searches :
        /\ Len(topics[r]) = 2
        /\ Len(results[r]) = 1
        /\ obs[r][1].insert = "ok"
        /\ obs[r][2].insert = "issued"
        /\ OutstandingCalls(r) = 1

\* The topics of request r whose insert the store has executed
StoredTopics(r) == { i \in 1..Len(obs[r]) : obs[r][i].insert = "ok" }

\* C15: under every interleaving of two concurrent /search requests, every
\* row of the store is exactly the record one request inserted for one of its
\* topics (its URL, its idea, its scores), every executed insert has exactly
\* one row and no other topic has any, ids are distinct, and every entry of
\* a request's list is the entry of that request's own topic at that place.
C15_InsertsAreAtomic ==
    /\ \A k \in 1..Len(rows) :
          \E r \in Searches : \E i \in StoredTopics(r) :
              /\ rows[k].origin = <<r, i>>
              /\ rows[k].subreddit = RedditUrl(topics[r][i])
              /\ rows[k].idea = ParsedJson(obs[r][i]).businessIdea
              /\ rows[k].scores = Scores(variant, ParsedJson(obs[r][i]))
    /\ \A r \in Searches : \A i \in 1..Len(obs[r]) :
          Cardinality(RowsOf(r, i)) = (IF i \in StoredTopics(r) THEN 1 ELSE 0)
    /\ \A j, k \in 1..Len(rows) : rows[j].id = rows[k].id => j = k
    /\ \A r \in Searches :
          /\ Len(results[r]) <= Len(topics[r])
          /\ \A i \in 1..Len(results[r]) :
                results[r][i] = OwnEntry(variant, topics[r][i], obs[r][i])
          /\ response[r].status = 200 => response[r].list = results[r]

\* Both requests have answered 200, with different topics, and their inserts
\* interleaved in the store: a row of r2 lies between two rows of r1
C15_Witness ==
    /\ Len(rows) = 3
    /\ rows[1].origin = <<"r1", 1>>
    /\ rows[2].origin = <<"r2", 1>>
    /\ rows[3].origin = <<"r1", 2>>
    /\ topics["r1"] # topics["r2"]
    /\ response["r1"].status = 200
    /\ response["r2"].status = 200

\* C16: while the store handle is not initialised (the setup has not
\* finished, or it failed), a /search request whose suggester answered never
\* answers 500 and answers 200 with one entry per topic; nothing is
\* persisted; every topic whose analysis succeeded with a persistable record
\* has the analysis placeholder (score 0) as its entry instead of its
\* analysis, while a record that is not persistable keeps its analysis.
C16_UninitialisedStoreGivesPlaceholders ==
    db = "undefined" =>
        /\ rows = <<>>
        /\ \A r \in Searches :
              /\ suggester[r] = "ok" => response[r].status # 500
              /\ (suggester[r] = "ok" /\ pc[r] = "done") =>
                    /\ response[r].status = 200
                    /\ Len(response[r].list) = Len(topics[r])
              /\ \A i \in 1..Len(results[r]) :
                    LET o == obs[r][i]
                        e == results[r][i]
                    IN  /\ e.link = RedditUrl(topics[r][i])
                        /\ (StagesSucceeded(o) /\ ShouldPersist(variant, ParsedJson(o))) =>
                              /\ e.idea = "Could not generate or parse analysis."
                              /\ e.scores = <<0>>
                        /\ (StagesSucceeded(o) /\ ~ShouldPersist(variant, ParsedJson(o))) =>
                              e.idea = ParsedJson(o).businessIdea

\* The setup has failed, and a request with two topics whose analyses both
\* gave the persistable record has answered 200 with two analysis
\* placeholders and nothing stored
C16_Witness ==
    \E r \in Searches :
        /\ db = "undefined"
        /\ dbInit = "done"
        /\ response[r].status = 200
        /\ Len(response[r].list) = 2
        /\ \A i \in 1..Len(response[r].list) :
              /\ obs[r][i].insert = "threw"
              /\ ParsedJson(obs[r][i]) = FullJson
              /\ response[r].list[i].idea = "Could not generate or parse analysis."
        /\ rows = <<>>

\* C17: every /search request receives exactly one response: none before a
\* call of the request completes, a 200 with a list and no error or a 500
\* with an error and no list, and once sent it is never replaced; a request
\* that has called the suggester is eventually answered when every call it
\* awaits eventually returns or fails; as an answer is only ever sent in a
\* step that completes the outstanding call, a call that never completes
\* leaves the request unanswered.
C17_ExactlyOneResponse ==
    /\ [][\A r \in Searches :
            /\ response[r].status # 0 => response'[r] = response[r]
            /\ Answers(r) =>
                  /\ OutstandingCalls(r) = 1
                  /\ OutstandingCalls(r)' = 0
                  /\ \/ /\ response'[r].status = 200
                        /\ response'[r].error = ""
                        /\ response'[r].list = results'[r]
                     \/ /\ response'[r].status = 500
                        /\ response'[r].error # ""
                        /\ response'[r].list = <<>>]_vars
    /\ \A r \in Requests : (suggester[r] = "called") ~> (response[r].status # 0)

\* One request was answered 500 on an unreadable suggester answer while the
\* other, left waiting for its insert in between, was answered 200
C17_Witness ==
    /\ response["r1"].status = 500
    /\ suggester["r1"] = "unreadable"
    /\ response["r2"].status = 200
    /\ Len(response["r2"].list) = 2
    /\ \E i \in 1..Len(obs["r2"]) : obs["r2"][i].insert = "ok"

====
